---- MODULE Spec2Model ----
(***************************************************************************)
(* Model of the parser_wasm front end: path normalisation, the FileStack   *)
(* worklist, the IncludesGraph pragma check, the version gate, the comment *)
(* preprocessor and the run_parser driver loop.                            *)
(*                                                                         *)
(* A string is modelled by the sequence of its '/'-separated segments      *)
(* (what str::split('/') yields): "" is <<"">>, "/" is <<"", "">>,         *)
(* "/a/b" is <<"", "a", "b">>, "a/b" is <<"a", "b">>.  A PathBuf holds     *)
(* such a string unchanged; its equality is by components, as in std.      *)
(***************************************************************************)
EXTENDS Integers, Sequences, FiniteSets, TLC

VARIABLES
    \* FileStack (include_logic.rs:25-29)
    current_location, black_paths, stack,
    \* arguments of run_parser (lib.rs:64-69); files_map and link_libraries
    \* are also the arguments of FileStack::add_include
    file, version, link_libraries, files_map,
    \* what the FileStack operations returned so far
    taken, last_include,
    \* IncludesGraph (include_logic.rs:111-115)
    nodes, adjacency, custom_gates_nodes,
    \* get_problematic_paths / traverse: the loop position over
    \* custom_gates_nodes, the call stack of traverse, and the result
    gpp_from, frames, problematic_paths,
    \* locals of run_parser (lib.rs:70-75) and its position and result
    pc, crr, file_library, definitions, main_components, warnings, result,
    \* preprocess (parser_logic.rs:13): argument and result
    expr, pp_result,
    \* check_number_version / check_custom_gates_version (lib.rs:222-270):
    \* arguments and result
    version_file, version_compiler, version_result,
    \* normalize_path (include_logic.rs:11): argument and result
    path_arg, path_result

fsVars == <<current_location, black_paths, stack>>
inVars == <<file, version, link_libraries, files_map>>
obsVars == <<taken, last_include>>
graphVars == <<nodes, adjacency, custom_gates_nodes>>
travVars == <<gpp_from, frames, problematic_paths>>
drvVars == <<pc, crr, file_library, definitions, main_components, warnings, result>>
ppVars == <<expr, pp_result>>
verVars == <<version_file, version_compiler, version_result>>
npVars == <<path_arg, path_result>>

vars == <<fsVars, inVars, obsVars, graphVars, travVars, drvVars, ppVars,
          verVars, npVars>>

\* Option::None of a path or a version (both are non-empty sequences), and
\* the value of a result variable before the operation has run
None == <<>>
NoResult == [none |-> TRUE]

----------------------------------------------------------------------------
(* Strings and std::path::PathBuf *)

EmptyStr == <<"">>
RootStr == <<"", "">>

Front(s) == SubSeq(s, 1, Len(s) - 1)
Last(s) == s[Len(s)]
Range(seq) == {seq[i] : i \in DOMAIN seq}

\* a path string starting with '/'
HasRoot(s) == Len(s) >= 2 /\ s[1] = ""

\* Path::components: empty segments and "." are skipped, except a "." that
\* starts a relative path
IsComp(s, i) == s[i] # "" /\ (s[i] = "." => i = 1)

CompIdx(s) == {i \in 1..Len(s) : IsComp(s, i)}

RECURSIVE CompSeqFrom(_, _)
CompSeqFrom(s, i) ==
    IF i > Len(s) THEN <<>>
    ELSE IF IsComp(s, i) THEN <<s[i]>> \o CompSeqFrom(s, i + 1)
    ELSE CompSeqFrom(s, i + 1)

Components(s) == <<HasRoot(s), CompSeqFrom(s, 1)>>

\* PathBuf == PathBuf, and the key equality of HashSet<PathBuf> / HashMap<PathBuf, _>
PathEq(p, q) == Components(p) = Components(q)

MaxOf(S) == CHOOSE m \in S : \A x \in S : x <= m

\* PathBuf::pop: truncate to Path::parent, or leave unchanged when there is none
PathPop(s) ==
    LET idx == CompIdx(s) IN
    IF idx = {} THEN s
    ELSE LET k == MaxOf(idx)
             before == {i \in idx : i < k}
         IN IF before # {} THEN SubSeq(s, 1, MaxOf(before))
            ELSE IF HasRoot(s) THEN RootStr
            ELSE EmptyStr

\* PathBuf::push: an absolute argument replaces the path, otherwise it is
\* appended with a separator unless the path is empty or ends with one
PathPush(p, q) ==
    IF HasRoot(q) THEN q
    ELSE IF Last(p) = "" THEN Front(p) \o q
    ELSE p \o q

\* path_clean::PathClean::clean
CleanStep(out, part, rooted) ==
    IF part \in {"", "."} THEN out
    ELSE IF part = ".." THEN
        IF out # <<>> /\ Last(out) # ".." THEN Front(out)
        ELSE IF rooted THEN out
        ELSE Append(out, "..")
    ELSE Append(out, part)

RECURSIVE CleanFrom(_, _, _, _)
CleanFrom(out, s, i, rooted) ==
    IF i > Len(s) THEN out
    ELSE CleanFrom(CleanStep(out, s[i], rooted), s, i + 1, rooted)

PathClean(s) ==
    LET rooted == HasRoot(s)
        out == CleanFrom(<<>>, s, 1, rooted)
    IN IF rooted THEN (IF out = <<>> THEN RootStr ELSE <<"">> \o out)
       ELSE (IF out = <<>> THEN <<".">> ELSE out)

----------------------------------------------------------------------------
(* normalize_path, include_logic.rs:11-23 *)

NormStep(components, part) ==
    IF part \in {".", ""} THEN components
    ELSE IF part = ".." THEN
        (IF components = <<>> THEN components ELSE Front(components))
    ELSE Append(components, part)

RECURSIVE NormFrom(_, _, _)
NormFrom(components, path, i) ==
    IF i > Len(path) THEN components
    ELSE NormFrom(NormStep(components, path[i]), path, i + 1)

\* components.join("/") as a string: joining nothing, or the lone root
\* marker, gives the empty string
JoinSlash(components) == IF components = <<>> THEN EmptyStr ELSE components

normalize_path(path) == JoinSlash(NormFrom(<<"">>, path, 1))

----------------------------------------------------------------------------
(* FileStack, include_logic.rs:25-103 *)

\* mutant: nothing is ever inserted
Insert_forgets(set, p) == set

\* HashSet<PathBuf>::contains / insert
Contains(set, p) == \E q \in set : PathEq(q, p)
Insert(set, p) == IF Contains(set, p) THEN set ELSE set \cup {p}

\* FileStack::new
FileStack_new(src) ==
    [current_location |-> PathPop(src), black_paths |-> {}, stack |-> <<src>>]

\* mutant: the current location tried after the libraries
Candidates_current_last(loc, libraries) == libraries \o <<loc>>

\* libraries2: the current location first, then the caller's libraries
Candidates(loc, libraries) == <<loc>> \o libraries

\* the path tried for one candidate: push lib, push name, clean, normalize
Resolve(lib, name) ==
    normalize_path(PathClean(PathPush(PathPush(EmptyStr, lib), name)))

\* the for loop of add_include: index of the first candidate whose resolved
\* path is a key of files_map, 0 when the loop runs out
RECURSIVE FirstMatch(_, _, _, _)
FirstMatch(libraries2, name, keys, i) ==
    IF i > Len(libraries2) THEN 0
    ELSE IF Resolve(libraries2[i], name) \in keys THEN i
    ELSE FirstMatch(libraries2, name, keys, i + 1)

\* mutant: the resolved path is pushed whether visited or not
add_include_always_push(f_stack, name, libraries, keys) ==
    LET libraries2 == Candidates(f_stack.current_location, libraries)
        i == FirstMatch(libraries2, name, keys, 1)
    IN IF i = 0
       THEN [ok |-> FALSE, path |-> None,
             report |-> [code |-> "IncludeNotFound", message |-> name],
             f_stack |-> f_stack]
       ELSE LET canonical_str == Resolve(libraries2[i], name)
            IN [ok |-> TRUE, path |-> canonical_str, report |-> NoResult,
                f_stack |-> [f_stack EXCEPT !.stack = Append(@, canonical_str)]]

\* FileStack::add_include: the result, and the FileStack it leaves
add_include(f_stack, name, libraries, keys) ==
    LET libraries2 == Candidates(f_stack.current_location, libraries)
        i == FirstMatch(libraries2, name, keys, 1)
    IN IF i = 0
       THEN [ok |-> FALSE, path |-> None,
             report |-> [code |-> "IncludeNotFound", message |-> name],
             f_stack |-> f_stack]
       ELSE LET canonical_str == Resolve(libraries2[i], name)
            IN [ok |-> TRUE, path |-> canonical_str, report |-> NoResult,
                f_stack |->
                    IF ~Contains(f_stack.black_paths, canonical_str)
                    THEN [f_stack EXCEPT !.stack = Append(@, canonical_str)]
                    ELSE f_stack]

\* mutant: the current location stays where new put it
RECURSIVE take_next_location_kept(_)
take_next_location_kept(f_stack) ==
    IF f_stack.stack = <<>> THEN [file |-> None, f_stack |-> f_stack]
    ELSE LET file_ == Last(f_stack.stack)
             popped == [f_stack EXCEPT !.stack = Front(@)]
         IN IF ~Contains(f_stack.black_paths, file_)
            THEN [file |-> file_,
                  f_stack |-> [popped EXCEPT !.black_paths = Insert(@, file_)]]
            ELSE take_next_location_kept(popped)

\* mutant: the oldest entry of the stack is taken first
RECURSIVE take_next_oldest_first(_)
take_next_oldest_first(f_stack) ==
    IF f_stack.stack = <<>> THEN [file |-> None, f_stack |-> f_stack]
    ELSE LET file_ == Head(f_stack.stack)
             popped == [f_stack EXCEPT !.stack = Tail(@)]
         IN IF ~Contains(f_stack.black_paths, file_)
            THEN [file |-> file_,
                  f_stack |-> [popped EXCEPT
                                 !.current_location = PathPop(file_),
                                 !.black_paths = Insert(@, file_)]]
            ELSE take_next_oldest_first(popped)

\* FileStack::take_next: pop until an entry outside black_paths, or empty;
\* the entry found becomes the current file and is blacklisted
RECURSIVE take_next(_)
take_next(f_stack) ==
    IF f_stack.stack = <<>> THEN [file |-> None, f_stack |-> f_stack]
    ELSE LET file_ == Last(f_stack.stack)
             popped == [f_stack EXCEPT !.stack = Front(@)]
         IN IF ~Contains(f_stack.black_paths, file_)
            THEN [file |-> file_,
                  f_stack |-> [popped EXCEPT
                                 !.current_location = PathPop(file_),
                                 !.black_paths = Insert(@, file_)]]
            ELSE take_next(popped)

\* the FileStack held in the variables
FileStackNow ==
    [current_location |-> current_location, black_paths |-> black_paths,
     stack |-> stack]

FileStackBecomes(f_stack) ==
    /\ current_location' = f_stack.current_location
    /\ black_paths' = f_stack.black_paths
    /\ stack' = f_stack.stack

----------------------------------------------------------------------------
(* IncludesGraph, include_logic.rs:105-184.  Node indices count from 0 as  *)
(* in the code; nodes is a sequence of [path, custom_gates_pragma].         *)

NodeAt(ns, i) == ns[i + 1]

\* HashMap<PathBuf, Vec<usize>>::get, an absent key read as no edges
AdjGet(adj, p) ==
    IF \E k \in DOMAIN adj : PathEq(k, p)
    THEN adj[CHOOSE k \in DOMAIN adj : PathEq(k, p)]
    ELSE <<>>

\* adjacency.entry(path).or_default().push(idx)
AdjPush(adj, p, idx) ==
    IF \E k \in DOMAIN adj : PathEq(k, p)
    THEN LET key == CHOOSE k \in DOMAIN adj : PathEq(k, p)
         IN [adj EXCEPT ![key] = Append(@, idx)]
    ELSE [k \in DOMAIN adj \cup {p} |-> IF k = p THEN <<idx>> ELSE adj[k]]

\* IncludesGraph::add_node
add_node(ns, roots, path, custom_gates_pragma, custom_gates_usage) ==
    LET ns2 == Append(ns, [path |-> path, custom_gates_pragma |-> custom_gates_pragma])
    IN [nodes |-> ns2,
        custom_gates_nodes |->
            IF custom_gates_usage THEN Append(roots, Len(ns2) - 1) ELSE roots]

\* IncludesGraph::add_edge: the edge list of the included path gets the
\* index of the node added last
add_edge(adj, ns, old_path) ==
    AdjPush(adj, PathClean(normalize_path(old_path)), Len(ns) - 1)

\* mutant: no edge ever counts as traversed
EdgeTraversed_never(traversed_edges, edge) == FALSE

\* traversed_edges.contains(&edge)
EdgeTraversed(traversed_edges, edge) == edge \in traversed_edges

\* mutant: the path handed down by the caller is forgotten
TraverseFrame_own_file_only(ns, from, path, traversed_edges) ==
    [from |-> from, new_path |-> <<NodeAt(ns, from).path>>,
     traversed_edges |-> traversed_edges, next |-> 1]

\* one activation of traverse(from, path, traversed_edges): new_path is
\* built on entry, next is the position in the for loop over the edges
TraverseFrame(ns, from, path, traversed_edges) ==
    [from |-> from, new_path |-> Append(path, NodeAt(ns, from).path),
     traversed_edges |-> traversed_edges, next |-> 1]

\* mutant: every visited node is reported, pragma or not
Reported_every_node(ns, found, from, path) ==
    Append(found, Append(path, NodeAt(ns, from).path))

\* if !using_pragma { problematic_paths.push(new_path) }: every activation
\* returns its own chain first and then those of its callees, so the
\* caller's list grows in call order
Reported(ns, found, from, path) ==
    IF ~NodeAt(ns, from).custom_gates_pragma
    THEN Append(found, Append(path, NodeAt(ns, from).path))
    ELSE found

GppStarted == gpp_from >= 1
GppDone == GppStarted /\ frames = <<>> /\ gpp_from > Len(custom_gates_nodes)

\* get_problematic_paths: the next element of custom_gates_nodes is passed
\* to traverse with an empty path and no traversed edge
GppNextRoot ==
    /\ GppStarted /\ frames = <<>> /\ gpp_from <= Len(custom_gates_nodes)
    /\ LET from == custom_gates_nodes[gpp_from] IN
         /\ frames' = <<TraverseFrame(nodes, from, <<>>, {})>>
         /\ problematic_paths' = Reported(nodes, problematic_paths, from, <<>>)
    /\ UNCHANGED <<gpp_from, fsVars, inVars, obsVars, graphVars, drvVars,
                   ppVars, verVars, npVars>>

\* traverse: one turn of the for loop over the edges of from_path
TraverseEdge ==
    /\ frames # <<>>
    /\ LET top == Last(frames)
           edges == AdjGet(adjacency, NodeAt(nodes, top.from).path)
       IN /\ top.next <= Len(edges)
          /\ LET to == edges[top.next]
                 edge == <<top.from, to>>
                 advanced == [frames EXCEPT ![Len(frames)].next = top.next + 1]
             IN IF ~EdgeTraversed(top.traversed_edges, edge)
                THEN /\ frames' = Append(advanced,
                            TraverseFrame(nodes, to, top.new_path,
                                          top.traversed_edges \cup {edge}))
                     /\ problematic_paths' =
                            Reported(nodes, problematic_paths, to, top.new_path)
                ELSE /\ frames' = advanced
                     /\ UNCHANGED problematic_paths
    /\ UNCHANGED <<gpp_from, fsVars, inVars, obsVars, graphVars, drvVars,
                   ppVars, verVars, npVars>>

\* traverse returns when its edges are exhausted; the outermost return
\* moves get_problematic_paths to its next root
TraverseReturn ==
    /\ frames # <<>>
    /\ LET top == Last(frames)
           edges == AdjGet(adjacency, NodeAt(nodes, top.from).path)
       IN top.next > Len(edges)
    /\ frames' = Front(frames)
    /\ gpp_from' = IF Len(frames) = 1 THEN gpp_from + 1 ELSE gpp_from
    /\ UNCHANGED <<problematic_paths, fsVars, inVars, obsVars, graphVars,
                   drvVars, ppVars, verVars, npVars>>

----------------------------------------------------------------------------
(* preprocess, parser_logic.rs:13-74.  A source text is a sequence of bytes; *)
(* offsets are counted from 0 as in the code.                               *)

NL == "NL"
SP == " "

ByteAt(bytes, i) == bytes[i + 1]

\* the inner loop of a line comment: stop at a newline or at the end
RECURSIVE SkipLine(_, _)
SkipLine(bytes, i) ==
    IF i < Len(bytes) /\ ByteAt(bytes, i) # NL THEN SkipLine(bytes, i + 1) ELSE i

\* the while loop: state 0 is normal, state 2 is inside a block comment
RECURSIVE Scan(_, _, _, _, _)
Scan(bytes, i, state, block_start, comment_ranges) ==
    IF ~(i < Len(bytes))
    THEN [state |-> state, block_start |-> block_start,
          comment_ranges |-> comment_ranges]
    ELSE IF state = 0 THEN
        IF ByteAt(bytes, i) = "/" /\ i + 1 < Len(bytes) THEN
            IF ByteAt(bytes, i + 1) = "/" THEN
                LET end == SkipLine(bytes, i + 2) IN
                Scan(bytes, end, state, block_start,
                     Append(comment_ranges, <<i, end>>))
            ELSE IF ByteAt(bytes, i + 1) = "*" THEN
                Scan(bytes, i + 2, 2, i, comment_ranges)
            ELSE Scan(bytes, i + 1, state, block_start, comment_ranges)
        ELSE Scan(bytes, i + 1, state, block_start, comment_ranges)
    ELSE IF state = 2 THEN
        IF ByteAt(bytes, i) = "*" /\ i + 1 < Len(bytes)
           /\ ByteAt(bytes, i + 1) = "/"
        THEN Scan(bytes, i + 2, 0, block_start,
                  Append(comment_ranges, <<block_start, i + 2>>))
        ELSE Scan(bytes, i + 1, state, block_start, comment_ranges)
    ELSE Scan(bytes, i + 1, state, block_start, comment_ranges)

\* range.contains(&idx) for a half-open range start..end
RangeContains(range, idx) == range[1] <= idx /\ idx < range[2]

\* mutant: the end of a range taken as inclusive
MaskByte_inclusive(bytes, comment_ranges, idx) ==
    IF \E k \in DOMAIN comment_ranges :
          comment_ranges[k][1] <= idx /\ idx <= comment_ranges[k][2]
    THEN SP ELSE ByteAt(bytes, idx)

\* the masking pass: a byte inside any recorded range becomes a space
MaskByte(bytes, comment_ranges, idx) ==
    IF \E k \in DOMAIN comment_ranges : RangeContains(comment_ranges[k], idx)
    THEN SP ELSE ByteAt(bytes, idx)

\* mutant: the error pinned after the "/*" instead of at it
preprocess_pinned_after(bytes) ==
    LET s == Scan(bytes, 0, 0, 0, <<>>) IN
    IF s.state = 2
    THEN [ok |-> FALSE, code |-> "UnclosedComment",
          location |-> <<s.block_start + 2, s.block_start + 2>>]
    ELSE [ok |-> TRUE,
          pp |-> [k \in 1..Len(bytes) |-> MaskByte(bytes, s.comment_ranges, k - 1)]]

preprocess(bytes) ==
    LET s == Scan(bytes, 0, 0, 0, <<>>) IN
    IF s.state = 2
    THEN [ok |-> FALSE, code |-> "UnclosedComment",
          location |-> <<s.block_start, s.block_start>>]
    ELSE [ok |-> TRUE,
          pp |-> [k \in 1..Len(bytes) |-> MaskByte(bytes, s.comment_ranges, k - 1)]]

----------------------------------------------------------------------------
(* VersionGate, lib.rs:222-270.  A Version is a triple <<major, minor, patch>> *)

\* mutant: the three components compared lexicographically
check_number_version_lex(file_path, required_version, compiler) ==
    IF required_version # None THEN
        IF \/ required_version[1] < compiler[1]
           \/ (required_version[1] = compiler[1]
               /\ (required_version[2] < compiler[2]
                   \/ (required_version[2] = compiler[2]
                       /\ required_version[3] <= compiler[3])))
        THEN [ok |-> TRUE, warnings |-> <<>>]
        ELSE [ok |-> FALSE,
              report |-> [code |-> "CompilerVersionError", file_path |-> file_path,
                          required |-> required_version, compiler |-> compiler]]
    ELSE [ok |-> TRUE,
          warnings |-> <<[code |-> "NoCompilerVersionWarning",
                          file_path |-> file_path, compiler |-> compiler]>>]

\* mutant: a source without a version pragma is rejected
check_number_version_pragma_required(file_path, required_version, compiler) ==
    IF required_version # None
       /\ required_version[1] = compiler[1]
       /\ (required_version[2] < compiler[2]
           \/ (required_version[2] = compiler[2]
               /\ required_version[3] <= compiler[3]))
    THEN [ok |-> TRUE, warnings |-> <<>>]
    ELSE [ok |-> FALSE,
          report |-> [code |-> "CompilerVersionError", file_path |-> file_path,
                      required |-> required_version, compiler |-> compiler]]

check_number_version(file_path, required_version, compiler) ==
    IF required_version # None THEN
        IF required_version[1] = compiler[1]
           /\ (required_version[2] < compiler[2]
               \/ (required_version[2] = compiler[2]
                   /\ required_version[3] <= compiler[3]))
        THEN [ok |-> TRUE, warnings |-> <<>>]
        ELSE [ok |-> FALSE,
              report |-> [code |-> "CompilerVersionError", file_path |-> file_path,
                          required |-> required_version, compiler |-> compiler]]
    ELSE [ok |-> TRUE,
          warnings |-> <<[code |-> "NoCompilerVersionWarning",
                          file_path |-> file_path, compiler |-> compiler]>>]

custom_gates_version == <<2, 0, 6>>

\* mutant: the minimum version itself is rejected
check_custom_gates_version_above(file_path, required_version, compiler) ==
    LET version_to_check ==
            IF required_version # None THEN required_version ELSE compiler
    IN IF \/ version_to_check[1] < 2
          \/ (version_to_check[1] = 2 /\ version_to_check[2] < 0)
          \/ (version_to_check[1] = 2 /\ version_to_check[2] = 0
              /\ version_to_check[3] <= 6)
       THEN [ok |-> FALSE,
             report |-> [code |-> "CustomGatesVersionError", file_path |-> file_path,
                         minimum |-> <<2, 0, 6>>, current |-> version_to_check]]
       ELSE [ok |-> TRUE]

check_custom_gates_version(file_path, required_version, compiler) ==
    LET version_to_check ==
            IF required_version # None THEN required_version ELSE compiler
    IN IF \/ version_to_check[1] < custom_gates_version[1]
          \/ (version_to_check[1] = custom_gates_version[1]
              /\ version_to_check[2] < custom_gates_version[2])
          \/ (version_to_check[1] = custom_gates_version[1]
              /\ version_to_check[2] = custom_gates_version[2]
              /\ version_to_check[3] < custom_gates_version[3])
       THEN [ok |-> FALSE,
             report |-> [code |-> "CustomGatesVersionError", file_path |-> file_path,
                         minimum |-> custom_gates_version,
                         current |-> version_to_check]]
       ELSE [ok |-> TRUE]

----------------------------------------------------------------------------
(* Values of the variables an interface under study does not use *)

EmptyMap == [k \in {} |-> <<>>]

FsIdle == current_location = EmptyStr /\ black_paths = {} /\ stack = <<>>
InIdle ==
    /\ file = EmptyStr /\ version = <<0, 0, 0>>
    /\ link_libraries = <<>> /\ files_map = EmptyMap
ObsIdle == taken = <<>> /\ last_include = NoResult
GraphIdle == nodes = <<>> /\ adjacency = EmptyMap /\ custom_gates_nodes = <<>>
TravIdle == gpp_from = 0 /\ frames = <<>> /\ problematic_paths = <<>>
DrvIdle ==
    /\ pc = "idle" /\ crr = NoResult /\ file_library = <<>> /\ definitions = <<>>
    /\ main_components = <<>> /\ warnings = <<>> /\ result = NoResult
PpIdle == expr = <<>> /\ pp_result = NoResult
VerIdle ==
    version_file = None /\ version_compiler = <<0, 0, 0>> /\ version_result = NoResult
NpIdle == path_arg = EmptyStr /\ path_result = None

----------------------------------------------------------------------------
(* The FileStack interface driven by an arbitrary caller *)

MaxStack == 3

S(a) == <<"", a>>
S2(a, b) == <<"", a, b>>

FsEntries == {S("m"), <<"m">>, S2("d", "m")}
FsLibraries == {<<>>, <<S("l1"), S("l2")>>, <<S("l2"), S("l1")>>}
FsKeySets == {{S("m"), S2("l1", "x"), S2("l2", "x")},
              {S("m"), S("x"), S2("l1", "x"), S2("d", "m")}}
FsNames == {<<"x">>, <<"m">>, <<"..", "m">>, <<"zz">>}

NoProgram == [includes |-> <<>>]

FsInit ==
    /\ file \in FsEntries
    /\ LET fs == FileStack_new(file) IN
          /\ current_location = fs.current_location
          /\ black_paths = fs.black_paths
          /\ stack = fs.stack
    /\ version = <<0, 0, 0>>
    /\ link_libraries \in FsLibraries
    /\ \E keys \in FsKeySets : files_map = [k \in keys |-> NoProgram]
    /\ ObsIdle /\ GraphIdle /\ TravIdle /\ DrvIdle /\ PpIdle /\ VerIdle /\ NpIdle

FsAddInclude ==
    /\ Len(stack) < MaxStack
    /\ \E name \in FsNames :
          LET r == add_include(FileStackNow, name, link_libraries, DOMAIN files_map)
          IN /\ FileStackBecomes(r.f_stack)
             /\ last_include' = [name |-> name, loc |-> current_location,
                                 ok |-> r.ok, path |-> r.path, report |-> r.report,
                                 visited |-> r.ok /\ Contains(black_paths, r.path)]
    /\ UNCHANGED <<taken, inVars, graphVars, travVars, drvVars, ppVars, verVars,
                   npVars>>

FsTakeNext ==
    LET r == take_next(FileStackNow) IN
    /\ FileStackBecomes(r.f_stack)
    /\ taken' = IF r.file = None THEN taken ELSE Append(taken, r.file)
    /\ UNCHANGED <<last_include, inVars, graphVars, travVars, drvVars, ppVars,
                   verVars, npVars>>

FsNext == FsAddInclude \/ FsTakeNext

SpecFS == FsInit /\ [][FsNext]_vars

\* C1: take_next never returns two paths that have the same normalized form
C1_NoTwoSameNormalized ==
    \A i, j \in DOMAIN taken :
        i < j => normalize_path(taken[i]) # normalize_path(taken[j])

FsCalled == last_include # NoResult

\* the candidates of the last add_include call whose normalized join with
\* the name is a key of files_map, by position in [current_location] ++ libraries
FsHits ==
    LET c == <<last_include.loc>> \o link_libraries
    IN {i \in DOMAIN c : Resolve(c[i], last_include.name) \in DOMAIN files_map}

\* C7: add_include returns the normalized join of the first candidate of
\* [current_location] ++ libraries whose normalized join with the name is a
\* key of files_map; when lib1/x and lib2/x exist and current_location/x
\* does not, it returns lib1/x
C7_FirstCandidateWins ==
    FsCalled =>
      LET c == <<last_include.loc>> \o link_libraries IN
      /\ last_include.ok <=> FsHits # {}
      /\ last_include.ok =>
            \E i \in FsHits :
               /\ \A j \in FsHits : i <= j
               /\ last_include.path = Resolve(c[i], last_include.name)
      /\ (Len(link_libraries) = 2 /\ FsHits = {2, 3}) =>
            last_include.path = Resolve(link_libraries[1], last_include.name)

\* both libraries hold the included name, the current directory does not,
\* and the first library's file was returned
C7_Witness ==
    /\ FsCalled /\ last_include.ok
    /\ Len(link_libraries) = 2 /\ FsHits = {2, 3}
    /\ Resolve(link_libraries[1], last_include.name)
         # Resolve(link_libraries[2], last_include.name)
    /\ last_include.path = Resolve(link_libraries[1], last_include.name)

\* a step of add_include: it records its call, or it grows the stack
AddIncludeStep == last_include' # last_include \/ Len(stack') > Len(stack)

\* C19: add_include fails, with IncludeNotFound(name), exactly when no
\* candidate's normalized join with the name is a key of files_map, and
\* then leaves stack, black_paths and current_location as they were; when
\* it succeeds it pushes the resolved path exactly when black_paths does not
\* hold it, and leaves black_paths and current_location as they were.
C19_AddIncludeFrame ==
    [][AddIncludeStep =>
        LET call == last_include'
            c == <<current_location>> \o link_libraries
        IN /\ call.loc = current_location
           /\ call.ok <=>
                 \E i \in DOMAIN c : Resolve(c[i], call.name) \in DOMAIN files_map
           /\ black_paths' = black_paths
           /\ current_location' = current_location
           /\ ~call.ok =>
                 /\ call.report = [code |-> "IncludeNotFound", message |-> call.name]
                 /\ stack' = stack
           /\ call.ok =>
                 stack' = IF \E v \in black_paths : PathEq(v, call.path)
                          THEN stack
                          ELSE Append(stack, call.path)]_vars

\* the entry file was taken and then included again: resolved, and not
\* pushed
C19_Witness ==
    /\ FsCalled /\ last_include.ok /\ last_include.visited
    /\ taken # <<>> /\ stack = <<>>

\* a step of take_next: it returns a file, or it empties the stack
TakeNextStep == Len(taken') > Len(taken) \/ Len(stack') < Len(stack)

\* the positions of the stack that hold a path not yet in black_paths
Unvisited == {i \in DOMAIN stack : ~Contains(black_paths, stack[i])}

\* C20: take_next returns the most recently pushed path that is not yet
\* visited, drops it and everything pushed after it, and marks it visited;
\* it returns nothing, leaving the stack empty, only when the stack holds
\* no unvisited path.
C20_DepthFirst ==
    [][TakeNextStep =>
        IF Unvisited = {}
        THEN taken' = taken /\ stack' = <<>> /\ black_paths' = black_paths
        ELSE LET k == MaxOf(Unvisited) IN
             /\ taken' = Append(taken, stack[k])
             /\ stack' = SubSeq(stack, 1, k - 1)
             /\ black_paths' = black_paths \cup {stack[k]}]_vars

\* the include resolved last was returned before the entry file, which was
\* pushed first and is still pending
C20_Witness ==
    /\ FsCalled /\ last_include.ok /\ last_include.path # file
    /\ taken = <<last_include.path>>
    /\ stack = <<file>>

----------------------------------------------------------------------------
(* The IncludesGraph interface driven by an arbitrary caller: nodes and    *)
(* edges are added in any order, then get_problematic_paths runs once.     *)
(* Node k gets the k-th name, so node paths are distinct.                  *)

MaxEdges == 3

GraphNames == <<S("a"), S("b"), S("c")>>

NumEdges(adj) ==
    LET RECURSIVE Sum(_)
        Sum(K) == IF K = {} THEN 0
                  ELSE LET k == CHOOSE x \in K : TRUE
                       IN Len(adj[k]) + Sum(K \ {k})
    IN Sum(DOMAIN adj)

GInit ==
    /\ GraphIdle /\ TravIdle
    /\ FsIdle /\ InIdle /\ ObsIdle /\ DrvIdle /\ PpIdle /\ VerIdle /\ NpIdle

GAddNode ==
    /\ ~GppStarted
    /\ Len(nodes) < Len(GraphNames)
    /\ \E custom_gates_pragma \in BOOLEAN, custom_gates_usage \in BOOLEAN :
          LET g == add_node(nodes, custom_gates_nodes, GraphNames[Len(nodes) + 1],
                            custom_gates_pragma, custom_gates_usage)
          IN nodes' = g.nodes /\ custom_gates_nodes' = g.custom_gates_nodes
    /\ UNCHANGED <<adjacency, travVars, fsVars, inVars, obsVars, drvVars,
                   ppVars, verVars, npVars>>

\* add_edge indexes the last node: it needs one
GAddEdge ==
    /\ ~GppStarted
    /\ nodes # <<>>
    /\ NumEdges(adjacency) < MaxEdges
    /\ \E k \in DOMAIN GraphNames :
          adjacency' = add_edge(adjacency, nodes, GraphNames[k])
    /\ UNCHANGED <<nodes, custom_gates_nodes, travVars, fsVars, inVars, obsVars,
                   drvVars, ppVars, verVars, npVars>>

GGetProblematicPaths ==
    /\ ~GppStarted
    /\ gpp_from' = 1
    /\ UNCHANGED <<frames, problematic_paths, graphVars, fsVars, inVars, obsVars,
                   drvVars, ppVars, verVars, npVars>>

GNext ==
    \/ GAddNode \/ GAddEdge \/ GGetProblematicPaths
    \/ GppNextRoot \/ TraverseEdge \/ TraverseReturn

SpecGraph == GInit /\ [][GNext]_vars

\* get_problematic_paths is one sequential computation: once called, it
\* keeps running
SpecGraphLive ==
    SpecGraph /\ WF_vars(GppNextRoot \/ TraverseEdge \/ TraverseReturn)

\* the (from, to) edges taken along the current chain of traverse activations
ChainEdge(i) == <<frames[i].from, frames[i + 1].from>>

NoEdgeTwiceOnPath ==
    /\ \A i, j \in 1..Len(frames) - 1 : i < j => ChainEdge(i) # ChainEdge(j)
    /\ \A i \in DOMAIN frames :
          frames[i].traversed_edges = {ChainEdge(j) : j \in 1..i - 1}
    /\ Len(frames) <= NumEdges(adjacency) + 1

\* the for-loop positions of the traverse activations, outermost first
LoopPos(fr) == [i \in DOMAIN fr |-> fr[i].next]

\* q comes after p in the order of execution: at the first activation where
\* they differ q is further in its loop, or q is what is left of p after
\* returns
PosAfter(p, q) ==
    \/ \E i \in DOMAIN p \cap DOMAIN q :
          /\ \A j \in 1..i - 1 : p[j] = q[j]
          /\ p[i] < q[i]
    \/ Len(q) < Len(p) /\ \A j \in DOMAIN q : p[j] = q[j]

\* every step of get_problematic_paths moves forward in a finite order:
\* to a later root, from before a root's call into it, or forward within it
TraversalAdvances ==
    \/ gpp_from' > gpp_from
    \/ gpp_from' = gpp_from /\ frames = <<>> /\ frames' # <<>>
    \/ gpp_from' = gpp_from /\ frames # <<>> /\ frames' # <<>>
       /\ PosAfter(LoopPos(frames), LoopPos(frames'))

\* the counters stay within the lists they walk, and every index stored in
\* the graph is the index of a node
TraversalBounded ==
    /\ gpp_from <= Len(custom_gates_nodes) + 1
    /\ \A i \in DOMAIN frames :
          /\ frames[i].next >= 1
          /\ frames[i].next
               <= Len(AdjGet(adjacency, NodeAt(nodes, frames[i].from).path)) + 1
    /\ \A i \in DOMAIN custom_gates_nodes : custom_gates_nodes[i] < Len(nodes)
    /\ \A k \in DOMAIN adjacency : \A i \in DOMAIN adjacency[k] :
          adjacency[k][i] < Len(nodes)

\* C5: on every graph, cyclic ones included, no (from, to) edge is taken
\* twice within one path, so the depth of traverse is bounded by the number
\* of edges, and every step of get_problematic_paths advances in a finite
\* order until it returns: it terminates with a finite list of chains
C5_Terminates ==
    /\ [](NoEdgeTwiceOnPath /\ TraversalBounded)
    /\ [][GppStarted => TraversalAdvances]_travVars

\* under the fairness of a running computation, a call returns
GppReturns == GppStarted ~> GppDone

\* a graph with a cycle a -> b -> a, a using the feature and neither
\* declaring the pragma, on which get_problematic_paths has returned
C5_Witness ==
    /\ GppDone
    /\ Len(nodes) >= 2
    /\ ~nodes[1].custom_gates_pragma /\ ~nodes[2].custom_gates_pragma
    /\ 0 \in {custom_gates_nodes[k] : k \in DOMAIN custom_gates_nodes}
    /\ 1 \in {AdjGet(adjacency, nodes[1].path)[k] :
                 k \in DOMAIN AdjGet(adjacency, nodes[1].path)}
    /\ 0 \in {AdjGet(adjacency, nodes[2].path)[k] :
                 k \in DOMAIN AdjGet(adjacency, nodes[2].path)}
    /\ Len(problematic_paths) >= 3

\* the nodes whose inclusion of node i the graph records
Includers(i) == Range(AdjGet(adjacency, NodeAt(nodes, i).path))

Roots == Range(custom_gates_nodes)

\* the (from, to) edges along a walk
WalkEdges(w) == {<<w[i], w[i + 1]>> : i \in 1..Len(w) - 1}

\* a walk and all its extensions: each step goes to an includer of the
\* node before, and no (from, to) edge is used twice
RECURSIVE WalksFrom(_)
WalksFrom(w) ==
    {w} \cup UNION {WalksFrom(Append(w, t)) :
                      t \in {u \in Includers(Last(w)) :
                                <<Last(w), u>> \notin WalkEdges(w)}}

\* the walks that start at a node using the feature
Walks == UNION {WalksFrom(<<r>>) : r \in Roots}

FilesOf(w) == [i \in DOMAIN w |-> NodeAt(nodes, w[i]).path]

NoPragma(i) == ~NodeAt(nodes, i).custom_gates_pragma

\* C16: every chain returned starts at a node that uses the feature, each
\* later file of it includes the file before, and its last file does not
\* declare the pragma; every node without the pragma that the traversal
\* is visiting has been reported with the path from the root to it, and
\* when get_problematic_paths returns, every walk from a root that ends at
\* a node without the pragma is among the chains.
C16_ChainsAreIncludeChains ==
    /\ \A c \in DOMAIN problematic_paths :
          LET chain == problematic_paths[c] IN
          /\ \E r \in Roots : NodeAt(nodes, r).path = chain[1]
          /\ \A i \in 1..Len(chain) - 1 :
                \E j \in Range(AdjGet(adjacency, chain[i])) :
                    NodeAt(nodes, j).path = chain[i + 1]
          /\ \E n \in 0..Len(nodes) - 1 :
                NodeAt(nodes, n).path = Last(chain) /\ NoPragma(n)
    /\ \A i \in DOMAIN frames :
          /\ frames[i].new_path = [k \in 1..i |-> NodeAt(nodes, frames[k].from).path]
          /\ frames[1].from = custom_gates_nodes[gpp_from]
          /\ NoPragma(frames[i].from) =>
                frames[i].new_path \in Range(problematic_paths)
    /\ GppDone =>
          \A w \in Walks :
              NoPragma(w[Len(w)]) => FilesOf(w) \in Range(problematic_paths)

\* c uses the feature and declares the pragma, b includes c and declares
\* it too, a includes b and does not: the chain c, b, a is returned
C16_Witness ==
    /\ GppDone /\ Len(nodes) = 3
    /\ ~NoPragma(2) /\ ~NoPragma(1) /\ NoPragma(0)
    /\ Roots = {2}
    /\ 1 \in Includers(2) /\ 0 \in Includers(1)
    /\ <<S("c"), S("b"), S("a")>> \in Range(problematic_paths)

----------------------------------------------------------------------------
(* preprocess applied to every short source text *)

MaxLen == 7

Alphabet == {"/", "*", NL, "a"}

RECURSIVE SeqsUpTo(_, _)
SeqsUpTo(A, n) ==
    IF n = 0 THEN {<<>>}
    ELSE LET shorter == SeqsUpTo(A, n - 1)
         IN shorter \cup {Append(q, a) : q \in {t \in shorter : Len(t) = n - 1}, a \in A}

PpInit ==
    /\ expr \in SeqsUpTo(Alphabet, MaxLen)
    /\ pp_result = NoResult
    /\ FsIdle /\ InIdle /\ ObsIdle /\ GraphIdle /\ TravIdle /\ DrvIdle
    /\ VerIdle /\ NpIdle

PpPreprocess ==
    /\ pp_result = NoResult
    /\ pp_result' = preprocess(expr)
    /\ UNCHANGED <<expr, fsVars, inVars, obsVars, graphVars, travVars, drvVars,
                   verVars, npVars>>

PpNext == PpPreprocess

SpecPre == PpInit /\ [][PpNext]_vars

\* The comment syntax read one byte at a time: N normal, S after a '/' in
\* normal text, L in a line comment, B in a block comment, T after a '*'
\* in a block comment
RefStep(mode, c) ==
    CASE mode = "N" -> IF c = "/" THEN "S" ELSE "N"
      [] mode = "S" -> IF c = "/" THEN "L" ELSE IF c = "*" THEN "B" ELSE "N"
      [] mode = "L" -> IF c = NL THEN "N" ELSE "L"
      [] mode = "B" -> IF c = "*" THEN "T" ELSE "B"
      [] mode = "T" -> IF c = "/" THEN "N" ELSE IF c = "*" THEN "T" ELSE "B"

\* the mode after the first k bytes
RECURSIVE RefMode(_, _)
RefMode(bytes, k) ==
    IF k = 0 THEN "N" ELSE RefStep(RefMode(bytes, k - 1), bytes[k])

\* byte k (counted from 1) belongs to a comment: it is inside one, or it is
\* the '/' that opens one, or the '/' that closes a block
IsCommentByte(bytes, k) ==
    \/ RefMode(bytes, k) \in {"L", "B", "T"}
    \/ RefMode(bytes, k) = "S" /\ k < Len(bytes)
       /\ RefMode(bytes, k + 1) \in {"L", "B"}
    \/ RefMode(bytes, k - 1) = "T" /\ RefMode(bytes, k) = "N"

EndsInBlock(bytes) == RefMode(bytes, Len(bytes)) \in {"B", "T"}

\* offset (from 0) of the '/' of the last "/*" that opened a block comment
LastBlockOpen(bytes) ==
    MaxOf({k \in 1..Len(bytes) - 1 :
              RefMode(bytes, k) = "S" /\ RefMode(bytes, k + 1) = "B"}) - 1

PpDone == pp_result # NoResult
PpOk == PpDone /\ pp_result.ok

\* C8: every newline of the source, also one inside a block comment, is
\* still a newline at the same offset of the masked buffer
C8_NewlinesPreserved ==
    PpOk => \A k \in DOMAIN expr : expr[k] = NL => pp_result.pp[k] = NL

\* C9: on success the masked buffer has the length of the input, every byte
\* outside the comments is unchanged, every comment byte is a space, and a
\* line comment stops before the newline that terminates it
C9_MaskedBuffer ==
    PpOk =>
      /\ Len(pp_result.pp) = Len(expr)
      /\ \A k \in DOMAIN expr :
            pp_result.pp[k] = IF IsCommentByte(expr, k) THEN SP ELSE expr[k]
      /\ \A k \in DOMAIN expr :
            RefMode(expr, k - 1) = "L" /\ expr[k] = NL => pp_result.pp[k] = NL

\* a successful run over a text with a block comment, a line comment ended
\* by a newline, and a byte outside both
C9_Witness ==
    /\ PpOk
    /\ \E k \in DOMAIN expr : RefMode(expr, k - 1) = "T" /\ RefMode(expr, k) = "N"
    /\ \E k \in DOMAIN expr : RefMode(expr, k - 1) = "L" /\ expr[k] = NL
    /\ pp_result.pp # expr

\* C10: preprocess fails, with an unclosed-comment error, exactly when the
\* input ends inside a block comment, and the error is located at the
\* offset of the "/*" that opened that block
C10_UnclosedComment ==
    PpDone =>
      /\ ~pp_result.ok <=> EndsInBlock(expr)
      /\ ~pp_result.ok =>
            /\ pp_result.code = "UnclosedComment"
            /\ pp_result.location = <<LastBlockOpen(expr), LastBlockOpen(expr)>>

\* a failure whose unterminated block follows an earlier, closed comment
C10_Witness ==
    /\ PpDone /\ ~pp_result.ok
    /\ pp_result.location[1] >= 2
    /\ \E k \in 1..pp_result.location[1] : IsCommentByte(expr, k)

----------------------------------------------------------------------------
(* The version checks applied to every pair of small versions *)

MaxMajor == 3
MaxMinor == 2
MaxPatch == 7

Versions == (0..MaxMajor) \X (0..MaxMinor) \X (0..MaxPatch)

VerPath == S("m")

VerInit ==
    /\ version_file \in {None} \cup Versions
    /\ version_compiler \in Versions
    /\ version_result = NoResult
    /\ FsIdle /\ InIdle /\ ObsIdle /\ GraphIdle /\ TravIdle /\ DrvIdle
    /\ PpIdle /\ NpIdle

VerCheckNumber ==
    /\ version_result = NoResult
    /\ version_result' =
          [fn |-> "check_number_version",
           r |-> check_number_version(VerPath, version_file, version_compiler)]
    /\ UNCHANGED <<version_file, version_compiler, fsVars, inVars, obsVars,
                   graphVars, travVars, drvVars, ppVars, npVars>>

VerCheckCustomGates ==
    /\ version_result = NoResult
    /\ version_result' =
          [fn |-> "check_custom_gates_version",
           r |-> check_custom_gates_version(VerPath, version_file, version_compiler)]
    /\ UNCHANGED <<version_file, version_compiler, fsVars, inVars, obsVars,
                   graphVars, travVars, drvVars, ppVars, npVars>>

VerNext == VerCheckNumber \/ VerCheckCustomGates

SpecVer == VerInit /\ [][VerNext]_vars

\* (major, minor, patch) compared lexicographically
LexLeq(a, b) ==
    \/ a[1] < b[1]
    \/ a[1] = b[1] /\ a[2] < b[2]
    \/ a[1] = b[1] /\ a[2] = b[2] /\ a[3] <= b[3]

NumberChecked ==
    /\ version_result # NoResult
    /\ version_result.fn = "check_number_version"
    /\ version_file # None

VersionMismatch(r) ==
    /\ ~r.ok
    /\ r.report = [code |-> "CompilerVersionError", file_path |-> VerPath,
                   required |-> version_file, compiler |-> version_compiler]

CustomGatesChecked ==
    /\ version_result # NoResult
    /\ version_result.fn = "check_custom_gates_version"

\* the declared version if present, otherwise the compiler's
EffectiveVersion == IF version_file # None THEN version_file ELSE version_compiler

\* C13: check_custom_gates_version fails exactly when the effective version
\* is lexicographically below (2,0,6), and then with the dedicated error.
C13_MinimumVersion ==
    CustomGatesChecked =>
      IF LexLeq(<<2, 0, 6>>, EffectiveVersion)
      THEN version_result.r.ok
      ELSE /\ ~version_result.r.ok
           /\ version_result.r.report.code = "CustomGatesVersionError"
           /\ version_result.r.report.current = EffectiveVersion

\* (2,0,6) itself passes, declared or not
C13_Witness ==
    /\ CustomGatesChecked
    /\ EffectiveVersion = <<2, 0, 6>>
    /\ version_result.r.ok

----------------------------------------------------------------------------
(* run_parser, lib.rs:35-212.  A value of files_map stands for the source   *)
(* text by what the grammar parser makes of it: whether it parses, and the *)
(* fields of the AST the driver reads.                                      *)

\* find_file: the libraries are tried in order, each joined with crr_file
RECURSIVE find_file(_, _, _, _, _)
find_file(crr_file, ext_link_libraries, keys, i, reports) ==
    IF i > Len(ext_link_libraries)
    THEN [found |-> FALSE, path |-> EmptyStr,
          crr_str_file |-> IF ext_link_libraries = <<>> THEN crr_file
                           ELSE PathPush(Last(ext_link_libraries), crr_file),
          reports |-> reports]
    ELSE LET crr_str_file == PathPush(ext_link_libraries[i], crr_file)
         IN \* open_file: files_map.get(path_str)
            IF crr_str_file \in keys
            THEN [found |-> TRUE, path |-> crr_str_file,
                  crr_str_file |-> crr_str_file, reports |-> reports]
            ELSE find_file(crr_file, ext_link_libraries, keys, i + 1,
                           Append(reports, [code |-> "FileOs",
                                            message |-> crr_str_file]))

\* ext_link_libraries: the empty path, then the caller's libraries
ExtLinkLibraries(libraries) == <<EmptyStr>> \o libraries

\* mutant: only the first candidate is named
produce_report_with_main_components_primary_only(mains) ==
    [code |-> "MultipleMain", primary |-> mains[1].file_id, secondary |-> <<>>]

\* produce_report_with_main_components: the first candidate is the primary
\* location, every other one a secondary location, each with its file id
produce_report_with_main_components(mains) ==
    [code |-> "MultipleMain",
     primary |-> mains[1].file_id,
     secondary |-> [k \in 1..Len(mains) - 1 |-> mains[k + 1].file_id]]

\* IncludesGraph::display_path: the last segment of every file of the chain
display_path(chain) == [k \in DOMAIN chain |-> Last(chain[k])]

\* mutant: only the first problematic path is reported
PragmaErrors_first_only(paths) ==
    IF paths = <<>> THEN <<>>
    ELSE <<[code |-> "CustomGatesPragmaError", file_ |-> Last(paths[1]),
            chain |-> [k \in DOMAIN paths[1] |-> Last(paths[1][k])]]>>

\* one error per problematic path
PragmaErrors(paths) ==
    [k \in DOMAIN paths |->
        [code |-> "CustomGatesPragmaError", file_ |-> Last(paths[k]),
         chain |-> display_path(paths[k])]]

Failure(lib, reports) == [ok |-> FALSE, file_library |-> lib, reports |-> reports]

\* while let Some(crr_file) = FileStack::take_next(&mut file_stack)
DrvTakeNext ==
    /\ pc = "take"
    /\ LET r == take_next(FileStackNow) IN
         /\ FileStackBecomes(r.f_stack)
         /\ IF r.file = None
            THEN pc' = "main" /\ UNCHANGED <<crr, taken>>
            ELSE /\ pc' = "find"
                 /\ crr' = [crr_file |-> r.file]
                 /\ taken' = Append(taken, r.file)
    /\ UNCHANGED <<file_library, definitions, main_components, warnings, result,
                   last_include, inVars, graphVars, travVars, ppVars, verVars,
                   npVars>>

\* find_file and file_library.add_file
DrvFindFile ==
    /\ pc = "find"
    /\ LET f == find_file(crr.crr_file, ExtLinkLibraries(link_libraries),
                          DOMAIN files_map, 1, <<>>)
       IN IF ~f.found
          THEN /\ result' = Failure(file_library, f.reports)
               /\ pc' = "done"
               /\ UNCHANGED <<crr, file_library>>
          ELSE /\ crr' = [crr_file |-> crr.crr_file, path |-> f.path,
                          crr_str_file |-> f.crr_str_file,
                          file_id |-> Len(file_library),
                          src |-> files_map[f.path]]
               /\ file_library' = Append(file_library, f.path)
               /\ pc' = "parse"
               /\ UNCHANGED result
    /\ UNCHANGED <<definitions, main_components, warnings, fsVars, inVars,
                   obsVars, graphVars, travVars, ppVars, verVars, npVars>>

\* parse_file, then the main component, the graph node and the definitions
DrvParse ==
    /\ pc = "parse"
    /\ IF ~crr.src.parse_ok
       THEN /\ result' = Failure(file_library,
                                 <<[code |-> "ParseFail",
                                    file_id |-> crr.file_id]>>)
            /\ pc' = "done"
            /\ UNCHANGED <<crr, main_components, definitions, nodes,
                           custom_gates_nodes>>
       ELSE LET program == crr.src
                g == add_node(nodes, custom_gates_nodes, crr.crr_str_file,
                              program.custom_gates, program.custom_gates_declared)
            IN /\ main_components' =
                     IF program.main_component
                     THEN Append(main_components,
                                 [file_id |-> crr.file_id,
                                  custom_gates |-> program.custom_gates])
                     ELSE main_components
               /\ nodes' = g.nodes
               /\ custom_gates_nodes' = g.custom_gates_nodes
               /\ definitions' = Append(definitions, crr.file_id)
               /\ crr' = [crr_file |-> crr.crr_file, path |-> crr.path,
                          crr_str_file |-> crr.crr_str_file,
                          file_id |-> crr.file_id,
                          program |-> program, includes |-> program.includes]
               /\ pc' = "includes"
               /\ UNCHANGED result
    /\ UNCHANGED <<file_library, warnings, adjacency, fsVars, inVars, obsVars,
                   travVars, ppVars, verVars, npVars>>

\* one turn of the loop over the includes: add_include, then add_edge
DrvInclude ==
    /\ pc = "includes" /\ crr.includes # <<>>
    /\ LET include == Head(crr.includes)
           r == add_include(FileStackNow, include, link_libraries,
                            DOMAIN files_map)
       IN /\ last_include' = [name |-> include, loc |-> current_location,
                              ok |-> r.ok, path |-> r.path, report |-> r.report,
                              visited |-> r.ok /\ Contains(black_paths, r.path)]
          /\ FileStackBecomes(r.f_stack)
          /\ IF ~r.ok
             THEN /\ result' = Failure(file_library, <<r.report>>)
                  /\ pc' = "done"
                  /\ UNCHANGED <<crr, adjacency>>
             ELSE /\ adjacency' = add_edge(adjacency, nodes, r.path)
                  /\ crr' = [crr EXCEPT !.includes = Tail(@)]
                  /\ UNCHANGED <<pc, result>>
    /\ UNCHANGED <<file_library, definitions, main_components, warnings, taken,
                   nodes, custom_gates_nodes, inVars, travVars, ppVars, verVars,
                   npVars>>

\* check_number_version and, for a file with custom_gates, the
\* check_custom_gates_version that follows
DrvCheckVersions ==
    /\ pc = "includes" /\ crr.includes = <<>>
    /\ LET n == check_number_version(crr.path, crr.program.compiler_version,
                                     version)
           g == check_custom_gates_version(crr.path,
                                           crr.program.compiler_version, version)
       IN IF ~n.ok
          THEN /\ result' = Failure(file_library, <<n.report>>)
               /\ pc' = "done"
               /\ UNCHANGED warnings
          ELSE /\ warnings' = warnings \o n.warnings
               /\ IF crr.program.custom_gates /\ ~g.ok
                  THEN /\ result' = Failure(file_library, <<g.report>>)
                       /\ pc' = "done"
                  ELSE /\ pc' = "take"
                       /\ UNCHANGED result
    /\ UNCHANGED <<crr, file_library, definitions, main_components, fsVars,
                   inVars, obsVars, graphVars, travVars, ppVars, verVars, npVars>>

\* after the loop: none or several main components end the run, exactly
\* one calls get_problematic_paths
DrvCheckMain ==
    /\ pc = "main"
    /\ IF main_components = <<>>
       THEN /\ warnings' = Append(warnings, [code |-> "NoMainFoundInProject"])
            /\ result' = Failure(file_library, warnings')
            /\ pc' = "done"
            /\ UNCHANGED gpp_from
       ELSE IF Len(main_components) > 1
       THEN /\ warnings' = Append(warnings,
                    produce_report_with_main_components(main_components))
            /\ result' = Failure(file_library, warnings')
            /\ pc' = "done"
            /\ UNCHANGED gpp_from
       ELSE /\ pc' = "problematic_paths"
            /\ gpp_from' = 1
            /\ UNCHANGED <<warnings, result>>
    /\ UNCHANGED <<crr, file_library, definitions, main_components, frames,
                   problematic_paths, fsVars, inVars, obsVars, graphVars, ppVars,
                   verVars, npVars>>

\* what ProgramArchive::new and apply_syntactic_sugar can answer
ArchiveOutcomes == {"archive_error", "sugar_error", "ok"}

\* the pragma errors end the run; without any, the program archive is
\* assembled and desugared
DrvFinish ==
    /\ pc = "problematic_paths" /\ GppDone
    /\ LET errors == PragmaErrors(problematic_paths) IN
       IF errors # <<>>
       THEN /\ warnings' = warnings \o errors
            /\ result' = Failure(file_library, warnings')
            /\ UNCHANGED main_components
       ELSE LET main == Last(main_components)
                archive == [file_library |-> file_library,
                            main_id |-> main.file_id,
                            definitions |-> definitions,
                            custom_gates |-> main.custom_gates]
            IN /\ main_components' = Front(main_components)
               /\ \E outcome \in ArchiveOutcomes :
                    IF outcome = "archive_error"
                    THEN /\ warnings' = Append(warnings, [code |-> "ArchiveError"])
                         /\ result' = Failure(file_library, warnings')
                    ELSE IF outcome = "sugar_error"
                    THEN /\ warnings' = Append(warnings, [code |-> "SugarError"])
                         /\ result' = Failure(file_library, warnings')
                    ELSE /\ result' = [ok |-> TRUE, program_archive |-> archive,
                                       reports |-> warnings]
                         /\ UNCHANGED warnings
    /\ pc' = "done"
    /\ UNCHANGED <<crr, file_library, definitions, fsVars, inVars, obsVars,
                   graphVars, travVars, ppVars, verVars, npVars>>

----------------------------------------------------------------------------
(* run_parser on a family of small projects *)

MaxDev == 2

N(a) == <<a>>

Src(includes) ==
    [parse_ok |-> TRUE, includes |-> includes, main_component |-> FALSE,
     custom_gates |-> FALSE, custom_gates_declared |-> FALSE,
     compiler_version |-> <<2, 1, 0>>]

\* m -> a -> b
ChainProject ==
    [file |-> S("m"), link_libraries |-> <<>>,
     sources |-> (S("m") :> Src(<<N("a")>>)) @@ (S("a") :> Src(<<N("b")>>))
                 @@ (S("b") :> Src(<<>>)),
     main |-> {S("m")}, declared |-> {}]

\* m -> {a, b}, a -> c, b -> c, c defines a custom template
DiamondProject ==
    [file |-> S("m"), link_libraries |-> <<>>,
     sources |-> (S("m") :> Src(<<N("a"), N("b")>>)) @@ (S("a") :> Src(<<N("c")>>))
                 @@ (S("b") :> Src(<<N("c")>>)) @@ (S("c") :> Src(<<>>)),
     main |-> {S("m")}, declared |-> {S("c")}]

\* m -> a -> m, m defines a custom template
CycleProject ==
    [file |-> S("m"), link_libraries |-> <<>>,
     sources |-> (S("m") :> Src(<<N("a")>>)) @@ (S("a") :> Src(<<N("m")>>)),
     main |-> {S("m")}, declared |-> {S("m")}]

\* m includes a twice, a defines a custom template
TwiceProject ==
    [file |-> S("m"), link_libraries |-> <<>>,
     sources |-> (S("m") :> Src(<<N("a"), N("a")>>)) @@ (S("a") :> Src(<<>>)),
     main |-> {S("m")}, declared |-> {S("a")}]

\* m -> a, then an include that exists nowhere
MissingProject ==
    [file |-> S("m"), link_libraries |-> <<S("l1")>>,
     sources |-> (S("m") :> Src(<<N("a"), N("zz")>>)) @@ (S("a") :> Src(<<>>)),
     main |-> {S("m")}, declared |-> {}]

\* m -> d/a, and d/a -> b with b both beside it and at the top
DirProject ==
    [file |-> S("m"), link_libraries |-> <<>>,
     sources |-> (S("m") :> Src(<<<<"d", "a">>>>)) @@ (S2("d", "a") :> Src(<<N("b")>>))
                 @@ (S2("d", "b") :> Src(<<>>)) @@ (S("b") :> Src(<<>>)),
     main |-> {S("m")}, declared |-> {}]

\* m -> x, x found in both libraries
LibProject ==
    [file |-> S("m"), link_libraries |-> <<S("l1"), S("l2")>>,
     sources |-> (S("m") :> Src(<<N("x")>>)) @@ (S2("l1", "x") :> Src(<<>>))
                 @@ (S2("l2", "x") :> Src(<<>>)),
     main |-> {S("m")}, declared |-> {}]

\* the entry file is in no library
LostProject ==
    [file |-> N("q"), link_libraries |-> <<S("l1")>>,
     sources |-> (S("m") :> Src(<<>>)),
     main |-> {S("m")}, declared |-> {}]

\* a relative entry file, found through the library /
RelativeProject ==
    [file |-> N("m"), link_libraries |-> <<RootStr>>,
     sources |-> (S("m") :> Src(<<N("a")>>)) @@ (S("a") :> Src(<<N("m")>>)),
     main |-> {S("m")}, declared |-> {}]

Projects ==
    {ChainProject, DiamondProject, CycleProject, TwiceProject, MissingProject,
     DirProject, LibProject, LostProject, RelativeProject}

\* what a deviation changes in one source text
VersionKinds == {"v_none", "v_old", "v_new"}
Kinds == {"main", "bad", "pragma", "declared"} \cup VersionKinds

RECURSIVE SubsetsUpTo(_, _)
SubsetsUpTo(A, n) ==
    IF n = 0 THEN {{}}
    ELSE LET smaller == SubsetsUpTo(A, n - 1)
         IN smaller \cup {T \cup {x} : T \in smaller, x \in A}

Deviations(project) ==
    {dev \in SubsetsUpTo((DOMAIN project.sources) \X Kinds, MaxDev) :
        \A k \in DOMAIN project.sources :
            Cardinality({v \in VersionKinds : <<k, v>> \in dev}) <= 1}

Deviate(project, dev) ==
    [k \in DOMAIN project.sources |->
        [parse_ok |-> <<k, "bad">> \notin dev,
         includes |-> project.sources[k].includes,
         main_component |-> (k \in project.main) # (<<k, "main">> \in dev),
         custom_gates |-> <<k, "pragma">> \in dev,
         custom_gates_declared |->
             (k \in project.declared) # (<<k, "declared">> \in dev),
         compiler_version |->
             IF <<k, "v_none">> \in dev THEN None
             ELSE IF <<k, "v_old">> \in dev THEN <<2, 0, 5>>
             ELSE IF <<k, "v_new">> \in dev THEN <<2, 1, 6>>
             ELSE project.sources[k].compiler_version]]

\* the compiler versions run_parser is called with
CompilerVersions == {<<2, 1, 5>>, <<2, 0, 5>>}

\* run_parser up to its loop: the locals of lib.rs:70-79
DrvInit ==
    /\ \E project \in Projects : \E dev \in Deviations(project) :
         /\ file = project.file
         /\ link_libraries = project.link_libraries
         /\ files_map = Deviate(project, dev)
    /\ version \in CompilerVersions
    /\ LET f_stack == FileStack_new(file) IN
         /\ current_location = f_stack.current_location
         /\ black_paths = f_stack.black_paths
         /\ stack = f_stack.stack
    /\ pc = "take" /\ crr = NoResult /\ file_library = <<>> /\ definitions = <<>>
    /\ main_components = <<>> /\ warnings = <<>> /\ result = NoResult
    /\ ObsIdle /\ GraphIdle /\ TravIdle /\ PpIdle /\ VerIdle /\ NpIdle

Next ==
    \/ DrvTakeNext \/ DrvFindFile \/ DrvParse \/ DrvInclude \/ DrvCheckVersions
    \/ DrvCheckMain \/ GppNextRoot \/ TraverseEdge \/ TraverseReturn
    \/ DrvFinish

Spec == DrvInit /\ [][Next]_vars

Failed == result # NoResult /\ ~result.ok
Succeeded == result # NoResult /\ result.ok

\* C2: whenever run_parser fails, the report list it returns contains every
\* warning collected before the abort point.
C2_WarningsKept ==
    Failed => \A i \in DOMAIN warnings : warnings[i] \in Range(result.reports)

\* the diamond: m includes a and b, each of them includes c, only c defines a
\* custom template, a and b omit the pragma
IsDiamond ==
    /\ file = S("m")
    /\ DOMAIN files_map = {S("m"), S("a"), S("b"), S("c")}
    /\ files_map[S("m")].includes = <<N("a"), N("b")>>
    /\ files_map[S("a")].includes = <<N("c")>>
    /\ files_map[S("b")].includes = <<N("c")>>
    /\ \A k \in DOMAIN files_map : files_map[k].custom_gates_declared <=> k = S("c")
    /\ ~files_map[S("a")].custom_gates /\ ~files_map[S("b")].custom_gates

\* C4 as stated: on the diamond get_problematic_paths returns exactly the
\* two chains c, a, m and c, b, m.
C4_TwoFullChains ==
    (IsDiamond /\ GppDone) =>
        /\ Len(problematic_paths) = 2
        /\ Range(problematic_paths) =
               {<<S("c"), S("a"), S("m")>>, <<S("c"), S("b"), S("m")>>}

\* the chains of the diamond that end at a file without the pragma
DiamondChains ==
    (IF files_map[S("c")].custom_gates THEN {} ELSE {<<S("c")>>})
    \cup {<<S("c"), S("a")>>, <<S("c"), S("b")>>}
    \cup (IF files_map[S("m")].custom_gates THEN {}
          ELSE {<<S("c"), S("a"), S("m")>>, <<S("c"), S("b"), S("m")>>})

\* C4: on the diamond get_problematic_paths returns, once each, the chains
\* c, a and c, b, the chain c when c omits the pragma, and the chains c, a, m
\* and c, b, m when m omits it: two chains exactly when c and m declare it.
C4_DiamondChains ==
    (IsDiamond /\ GppDone) =>
        /\ Range(problematic_paths) = DiamondChains
        /\ Len(problematic_paths) = Cardinality(DiamondChains)

C4_Witness ==
    /\ IsDiamond /\ GppDone
    /\ files_map[S("c")].custom_gates /\ files_map[S("m")].custom_gates
    /\ Len(problematic_paths) = 2

\* the file ids whose source text declares a main component
MainIds ==
    {i \in 0..Len(file_library) - 1 : files_map[file_library[i + 1]].main_component}

\* the file ids a multiple-main report points at
NamedIds(r) == {r.primary} \cup Range(r.secondary)

\* C6: when the worklist has drained, no main component ends the run with a
\* no-main failure, two or more end it with a multiple-main failure naming
\* the file id of every candidate, and exactly one lets the run go on; a
\* successful run uses the main component of that one file.
C6_ExactlyOneMain ==
    /\ [](Succeeded => MainIds = {result.program_archive.main_id})
    /\ [][(pc = "main" /\ pc' # "main") =>
            /\ Cardinality(MainIds) = 0 =>
                 /\ pc' = "done" /\ Failed'
                 /\ Last(result'.reports).code = "NoMainFoundInProject"
            /\ Cardinality(MainIds) >= 2 =>
                 /\ pc' = "done" /\ Failed'
                 /\ Last(result'.reports).code = "MultipleMain"
                 /\ NamedIds(Last(result'.reports)) = MainIds
                 /\ Len(Last(result'.reports).secondary) + 1 = Cardinality(MainIds)
            /\ Cardinality(MainIds) = 1 =>
                 /\ pc' = "problematic_paths" /\ result' = NoResult]_vars

C6_Witness ==
    /\ pc = "done" /\ Failed
    /\ Last(result.reports).code = "MultipleMain"
    /\ Cardinality({file_library[i + 1] : i \in MainIds}) >= 2
    /\ NamedIds(Last(result.reports)) = MainIds

\* the driver is about to run the version checks of a source that has no
\* version pragma
MissingPragmaTurn ==
    /\ pc = "includes" /\ crr.includes = <<>>
    /\ crr.program.compiler_version = None

\* C14: a missing version pragma is not fatal: the version check of such a
\* source adds exactly one warning, carrying the file path and the compiler
\* version, and the driver goes on to the custom-gates check and then to the
\* next worklist item; warnings once collected stay collected and a
\* successful run returns them all.
C14_MissingPragmaTolerated ==
    /\ [][MissingPragmaTurn =>
            /\ warnings' = Append(warnings,
                    [code |-> "NoCompilerVersionWarning",
                     file_path |-> crr.path, compiler |-> version])
            /\ IF crr.program.custom_gates /\ ~LexLeq(<<2, 0, 6>>, version)
               THEN Failed' /\ result'.reports[1].code = "CustomGatesVersionError"
               ELSE pc' = "take" /\ result' = NoResult]_vars
    /\ [][/\ Len(warnings') >= Len(warnings)
          /\ \A i \in DOMAIN warnings : warnings'[i] = warnings[i]]_vars
    /\ [](Succeeded => result.reports = warnings)

\* a second file is being looked up while the warning of an earlier one
\* is held
C14_Witness ==
    /\ pc = "find" /\ Len(file_library) >= 1 /\ result = NoResult
    /\ \E i \in DOMAIN warnings :
          /\ warnings[i].code = "NoCompilerVersionWarning"
          /\ warnings[i].file_path = file_library[1]
          /\ warnings[i].compiler = version

\* ProgramArchive::new was called: the run succeeded, or it ended with a
\* failure of the assembly or of the desugaring
Assembled ==
    \/ Succeeded
    \/ Failed /\ result.reports # <<>>
       /\ Last(result.reports).code \in {"ArchiveError", "SugarError"}

RECURSIVE SelectCode(_, _)
SelectCode(reports, code) ==
    IF reports = <<>> THEN <<>>
    ELSE IF Head(reports).code = code
    THEN <<Head(reports)>> \o SelectCode(Tail(reports), code)
    ELSE SelectCode(Tail(reports), code)

\* C15: the program archive is assembled only when the worklist has
\* drained, exactly one main component exists and get_problematic_paths
\* returned no chain; when it returned chains the run fails and its reports
\* hold one custom-gates-pragma error for every chain, in the order of the
\* chains.
C15_AssemblyGuarded ==
    /\ Assembled =>
          /\ stack = <<>> /\ Cardinality(MainIds) = 1
          /\ GppDone /\ problematic_paths = <<>>
          /\ \A i \in DOMAIN file_library : files_map[file_library[i]].parse_ok
    /\ (pc = "done" /\ GppDone /\ problematic_paths # <<>>) =>
          /\ Failed
          /\ LET errors == SelectCode(result.reports, "CustomGatesPragmaError")
             IN /\ Len(errors) = Len(problematic_paths)
                /\ \A i \in DOMAIN errors :
                      /\ errors[i].file_ = Last(problematic_paths[i])
                      /\ Len(errors[i].chain) = Len(problematic_paths[i])
                      /\ \A k \in DOMAIN errors[i].chain :
                            errors[i].chain[k] = Last(problematic_paths[i][k])

\* a run that failed with several chains
C15_Witness ==
    /\ pc = "done" /\ GppDone /\ Failed
    /\ Len(problematic_paths) >= 2
    /\ Len(SelectCode(result.reports, "CustomGatesPragmaError")) >= 2

\* C17: the list returned by get_problematic_paths never holds the same
\* chain twice.
C17_NoChainTwice ==
    \A i, j \in DOMAIN problematic_paths :
        i < j => problematic_paths[i] # problematic_paths[j]

\* the directory of a file path without '.', '..' or empty segments:
\* everything before its last '/', and "/" for a file at the top
ParentDir(p) ==
    IF Len(p) = 1 THEN EmptyStr
    ELSE IF Len(p) = 2 /\ p[1] = "" THEN RootStr
    ELSE Front(p)

\* the driver is about to call add_include
IncludeTurn == pc = "includes" /\ crr.includes # <<>>

\* C18: at every add_include call of the driver current_location is the
\* directory of the path take_next returned last, and between two calls of
\* take_next current_location does not change.
C18_RelativeToCurrentFile ==
    /\ [](IncludeTurn => current_location = ParentDir(Last(taken)))
    /\ [][IncludeTurn =>
            /\ last_include'.loc = ParentDir(Last(taken))
            /\ current_location' = current_location]_vars
    /\ [][current_location' # current_location => pc = "take"]_vars

\* the include b of /d/a is looked up in /d, not in the directory of the
\* entry file /m
C18_Witness ==
    /\ file = S("m") /\ taken # <<>> /\ Last(taken) = S2("d", "a")
    /\ last_include # NoResult /\ last_include.name = N("b")
    /\ last_include.loc = S("d")
    /\ last_include.ok /\ last_include.path = S2("d", "b")

\* C21: the worklist loop terminates: every turn of it adds to black_paths
\* a path that was not there, black_paths never shrinks, the stack holds
\* only the entry path and keys of files_map, so at most one file more than
\* files_map has keys is processed; within a turn the list of includes
\* left to resolve gets shorter at every step.
C21_WorklistTerminates ==
    /\ [](/\ Len(taken) <= Cardinality(DOMAIN files_map) + 1
          /\ Cardinality(black_paths) = Len(taken)
          /\ \A i, j \in DOMAIN taken : i < j => ~PathEq(taken[i], taken[j])
          /\ \A i \in DOMAIN taken : Contains(black_paths, taken[i])
          /\ \A i \in DOMAIN stack :
                stack[i] = file \/ stack[i] \in DOMAIN files_map)
    /\ [][/\ black_paths \subseteq black_paths'
          /\ Len(taken') > Len(taken) =>
                /\ ~Contains(black_paths, Last(taken'))
                /\ black_paths' = black_paths \cup {Last(taken')}
          /\ (pc = "includes" /\ pc' = "includes") =>
                Len(crr'.includes) < Len(crr.includes)
          /\ (pc = "take" /\ taken' = taken) => pc' = "main"]_vars

\* two files that include each other, the entry path given relative: the
\* loop has ended after one turn more than there are files
C21_Witness ==
    /\ pc = "main" /\ stack = <<>>
    /\ Len(taken) = Cardinality(DOMAIN files_map) + 1
    /\ \E k1, k2 \in DOMAIN files_map :
          /\ k1 # k2
          /\ \E i \in DOMAIN files_map[k1].includes :
                Resolve(PathPop(k1), files_map[k1].includes[i]) = k2
          /\ \E i \in DOMAIN files_map[k2].includes :
                Resolve(PathPop(k2), files_map[k2].includes[i]) = k1

----------------------------------------------------------------------------
(* normalize_path on arbitrary path strings *)

MaxSegs == 4

Segments == {"", ".", "..", "a", "b"}

\* every string with at most MaxSegs - 1 slashes over the segments above
PathStrings == UNION {[1..n -> Segments] : n \in 1..MaxSegs}

NpInit ==
    /\ path_arg \in PathStrings /\ path_result = None
    /\ FsIdle /\ InIdle /\ ObsIdle /\ GraphIdle /\ TravIdle /\ DrvIdle
    /\ PpIdle /\ VerIdle

\* normalize_path(path_arg)
NpNormalize ==
    /\ path_result = None
    /\ path_result' = normalize_path(path_arg)
    /\ UNCHANGED <<path_arg, fsVars, inVars, obsVars, graphVars, travVars,
                   drvVars, ppVars, verVars>>

\* the result normalized again
NpNormalizeAgain ==
    /\ path_result # None /\ path_result # path_arg
    /\ path_arg' = path_result
    /\ path_result' = normalize_path(path_result)
    /\ UNCHANGED <<fsVars, inVars, obsVars, graphVars, travVars, drvVars,
                   ppVars, verVars>>

NpNext == NpNormalize \/ NpNormalizeAgain

SpecNP == NpInit /\ [][NpNext]_vars

NpDone == path_result # None

\* C11: normalizing a normalized path returns it unchanged.
C11_Idempotent == NpDone => normalize_path(path_result) = path_result

\* the reference: '.' and empty segments dropped, '..' pops the last segment
\* retained or is dropped when there is none
RECURSIVE RefSegments(_, _, _)
RefSegments(kept, path, i) ==
    IF i > Len(path) THEN kept
    ELSE IF path[i] \in {".", ""} THEN RefSegments(kept, path, i + 1)
    ELSE IF path[i] = ".."
    THEN RefSegments(IF kept = <<>> THEN kept ELSE Front(kept), path, i + 1)
    ELSE RefSegments(Append(kept, path[i]), path, i + 1)

\* the retained segments joined with '/', after a leading '/'
RefNormalized(path) ==
    LET kept == RefSegments(<<>>, path, 1)
    IN IF kept = <<>> THEN RootStr ELSE <<"">> \o kept

\* C12: the result is rooted, has no '.', '..' or empty segment, and is the
\* reference normalization of the input.
C12_RootedReference ==
    NpDone =>
        /\ HasRoot(path_result)
        /\ \A i \in 2..Len(path_result) :
              path_result[i] \notin {".", ".."}
              /\ (path_result[i] = "" => path_result = RootStr)
        /\ path_result = RefNormalized(path_arg)

====
